---- MODULE Spec2Model ----
(***************************************************************************)
(* State-machine model of CssMinimizerPlugin (src/src/index.js): the       *)
(* optimize() orchestration over a compilation's assets, the p-limit       *)
(* bounded task pool, the jest-worker pool, the result cache and the       *)
(* diagnostics lists.                                                      *)
(*                                                                         *)
(* Asset names are integers: name 0 stands for a file the default `test`   *)
(* pattern does not match (b.txt), names 1..MaxCss for k.css files.        *)
(* The compilation modelled exposes the asset API (getAsset/updateAsset).  *)
(***************************************************************************)
EXTENDS Integers, Sequences, FiniteSets, TLC

\* ----------------------------------------------------------------- bounds
MaxCss == 2          \* number of *.css assets of a compilation
MaxContent == 2      \* distinct input texts an asset may hold
MaxCpus == 3         \* largest os.cpus().length considered
MaxParallel == 2     \* largest explicit `parallel` number considered
MaxRuns == 2         \* optimize() calls in one behaviour

Names == 0..MaxCss
CssNames == {n \in Names : n > 0}
Contents == 1..MaxContent

\* ------------------------------------------------------------ value shapes
NoMap == "none"
NoOutput == [present |-> FALSE, code |-> [min |-> FALSE, text |-> 0],
             map |-> NoMap, warnings |-> <<>>,
             source |-> [code |-> [min |-> FALSE, text |-> 0], map |-> NoMap]]

\* The source map a freshly emitted asset with text c carries.
FreshMap(c) == IF c % 3 = 1 THEN "valid" ELSE IF c % 3 = 2 THEN "invalid" ELSE NoMap

\* A source object as the bundler emits it (text plus the map it carries).
FreshSource(c) == [code |-> [min |-> FALSE, text |-> c], map |-> FreshMap(c)]

FreshInfo == [minimized |-> FALSE, immutable |-> TRUE]

VARIABLES
  options,      \* this.options (set by the constructor; sourceMap resolved by apply)
  cpus,         \* os.cpus(): [undef, length]
  compiler,     \* apply(): the sourceMap option as configured, compiler.options, applied
  cacheFails,   \* whether the cache backend's reads and writes may fail
  assets,       \* compilation assets: name -> [source, info]
  errors,       \* compilation.errors
  warnings,     \* compilation.warnings
  cacheStore,   \* entries of the result cache, shared by successive runs
  runPc,        \* position of optimize(): idle, running, ending, resolved, rejected
  assetNames,   \* optimize(): the selected names, in Object.keys order
  cores,        \* optimize(): availableNumberOfCores
  concurrency,  \* optimize(): the p-limit bound; 0 stands for Infinity
  worker,       \* optimize(): [state: none|created|ended, numWorkers]
  queue,        \* p-limit: the tasks not yet started, FIFO
  tasks,        \* per name: the task's position and locals
  pre,          \* history: the assets as they were when the run began
  calls,        \* history: minifier invocations per name in this run
  wrote,        \* history: write-backs of minified output, per run
  budget        \* optimize() calls the behaviour may still make

vars == <<options, cpus, compiler, cacheFails, assets, errors, warnings, cacheStore, runPc, assetNames,
          cores, concurrency, worker, queue, tasks, pre, calls, wrote, budget>>

IdleTask == [pc |-> "idle", info |-> FreshInfo, input |-> 0, inputSourceMap |-> NoMap,
             output |-> NoOutput, outcome |-> "none", via |-> "none"]

\* ------------------------------------------------------------ pure helpers
RECURSIVE SetToSeq(_)
\* Object.keys order: ascending names.
SetToSeq(S) ==
  IF S = {} THEN <<>>
  ELSE LET m == CHOOSE x \in S : \A y \in S : x <= y
       IN <<m>> \o SetToSeq(S \ {m})

Range(s) == {s[i] : i \in 1..Len(s)}

Min(a, b) == IF a <= b THEN a ELSE b

\* static isSourceMap(input)
isSourceMap(input) == input = "valid"

\* matchObject with the `test` pattern left out of the decision.
matchObject_IgnoresTest(opts, assetName) ==
  /\ (opts.include.defined => assetName \in opts.include.set)
  /\ ~(opts.exclude.defined /\ assetName \in opts.exclude.set)

\* ModuleFilenameHelpers.matchObject(this.options, assetName)
matchObject(opts, assetName) ==
  /\ assetName \in opts.test
  /\ (opts.include.defined => assetName \in opts.include.set)
  /\ ~(opts.exclude.defined /\ assetName \in opts.exclude.set)

\* Whether the compilation exposes getAsset/updateAsset (the "New API" of lines
\* 172-175 and 183-186). The compilations modelled do; without it a compilation
\* keeps no info per asset.
HasAssetApi == TRUE

\* The info `{}` of the fallback branch of getAsset.
EmptyInfo == [minimized |-> FALSE, immutable |-> FALSE]

\* static getAsset(compilation, name)
getAsset(name) ==
  IF HasAssetApi
  THEN [name |-> name, source |-> assets[name].source, info |-> assets[name].info]
  ELSE [name |-> name, source |-> assets[name].source, info |-> EmptyInfo]

\* static getAvailableNumberOfCores(parallel)
getAvailableNumberOfCores(parallel) ==
  LET length == IF cpus.undef THEN 1 ELSE cpus.length
  IN IF parallel.auto
     THEN length - 1
     ELSE Min(parallel.number, length - 1)

\* ------------------------------------------------- diagnostics formatting
\* sourceMap.originalPositionFor(...) of a SourceMapConsumer built from a map
\* that passed isSourceMap: the original source it resolves to, or none.
originalPositionFor(sourceMap) ==
  IF sourceMap = "valid" THEN [source |-> "original.css"] ELSE [source |-> ""]

\* static buildError(error, file, sourceMap, requestShortener): the Error built.
\* sourceMap is the SourceMapConsumer argument, NoMap when it is null.
buildError(error, file, sourceMap) ==
  IF error.line
  THEN LET original == IF sourceMap # NoMap THEN originalPositionFor(sourceMap)
                       ELSE [source |-> ""]
       IN IF original.source # ""
          THEN [file |-> file, from |-> "Css Minimizer Webpack Plugin",
                location |-> "original+file"]
          ELSE [file |-> file, from |-> "Css Minimizer ", location |-> "file"]
  ELSE IF error.stack
       THEN [file |-> file, from |-> "Css Minimizer", location |-> "stack"]
       ELSE [file |-> file, from |-> "Css Minimizer", location |-> "message"]

\* The warningsFilter option applied to (warning, file, source): the default
\* `() => true`, a filter returning false, one that throws, and one that returns
\* false for the warnings whose original source was resolved.
warningsFilter(opts, warning, file, source) ==
  IF opts.warningsFilter = "dropMapped"
  THEN (IF source # "" THEN "drop" ELSE "keep")
  ELSE opts.warningsFilter

\* buildWarning without the filter test of line 153.
buildWarning_IgnoresFilter(opts, warning, file, sourceMap) ==
  LET original == IF sourceMap # NoMap /\ warning.pos
                  THEN originalPositionFor(sourceMap) ELSE [source |-> ""]
      source == IF original.source # "" /\ original.source # "asset" THEN original.source
                ELSE ""
  IN [kind |-> "minifier", file |-> file, msg |-> warning.msg, location |-> source]

\* static buildWarning(warning, file, sourceMap, requestShortener, warningsFilter):
\* "null", "throw" (the filter threw) or the message built. The message text does
\* not hold the asset name; `file` is kept on the entry to attribute it.
buildWarning(opts, warning, file, sourceMap) ==
  LET original == IF sourceMap # NoMap /\ warning.pos
                  THEN originalPositionFor(sourceMap) ELSE [source |-> ""]
      source == IF original.source # "" /\ original.source # "asset" THEN original.source
                ELSE ""
      verdict == warningsFilter(opts, warning, file, source)
  IN IF verdict = "throw" THEN [kind |-> "throw"]
     ELSE IF verdict = "drop" THEN [kind |-> "null"]
     ELSE [kind |-> "minifier", file |-> file, msg |-> warning.msg,
           location |-> source]

\* ------------------------------------------------------ external minifier
\* The warnings the minifier reports for an input text.
MinifyWarnings(text) ==
  IF text % 2 = 1 THEN <<[msg |-> text, pos |-> TRUE]>> ELSE <<>>

\* minify(options) of ./minify on success: {code, map, warnings}.
minifyFn(minimizerOptions) ==
  [present |-> TRUE,
   code |-> [min |-> TRUE, text |-> minimizerOptions.input],
   map |-> IF minimizerOptions.map
           THEN (IF minimizerOptions.inputSourceMap # NoMap THEN "valid" ELSE "generated")
           ELSE NoMap,
   warnings |-> MinifyWarnings(minimizerOptions.input)]

\* new SourceMapSource(code, name, map, input, inputSourceMap, true) or
\* new RawSource(code): the output source built from a minifier result.
OutputSource(output) == [code |-> output.code, map |-> output.map]

\* ------------------------------------------------------------ result cache
\* crypto.createHash('md4').update(input).digest('hex')
ContentHash(input) == (input * 5 + 3) % 16

\* cacheData: the key fields of one task (the asset name, the hash of the input
\* and the options; under webpack 5 the name and the input source's etag).
CacheKey(opts, name, input) ==
  [name |-> name, contentHash |-> ContentHash(input),
   minimizerOptions |-> opts.minimizerOptions]

\* cache.get(cacheData): the stored output, or NoOutput when absent.
CacheGet(opts, name, input) ==
  LET key == CacheKey(opts, name, input)
      hits == {e \in cacheStore : e.key = key}
  IN IF opts.cache /\ hits # {}
     THEN (CHOOSE e \in hits : TRUE).output
     ELSE NoOutput

\* cache.store({...output, ...cacheData}): the store after the write.
CacheStore(opts, name, input, output) ==
  IF opts.cache
  THEN {e \in cacheStore : e.key # CacheKey(opts, name, input)}
         \cup {[key |-> CacheKey(opts, name, input), output |-> output]}
  ELSE cacheStore

\* --------------------------------------------------------------- options
\* `parallel`: true is [auto |-> TRUE]; false and 0 are the number 0.
ParallelSettings ==
  {[auto |-> TRUE, number |-> 0]} \cup {[auto |-> FALSE, number |-> k] : k \in 0..MaxParallel}

CpuReports == {[undef |-> TRUE, length |-> 0]} \cup {[undef |-> FALSE, length |-> c] : c \in 0..MaxCpus}

\* The constructor's defaults (lines 35-61); sourceMap as apply() resolves it.
DefaultOptions ==
  [test |-> CssNames,
   include |-> [defined |-> FALSE, set |-> {}],
   exclude |-> [defined |-> FALSE, set |-> {}],
   warningsFilter |-> "keep",
   sourceMap |-> FALSE,
   cache |-> TRUE,
   parallel |-> [auto |-> TRUE, number |-> 0],
   minimizerOptions |-> "default"]

\* The configurations considered: every parallel setting, and the defaults with
\* one other option changed.
OptionSets ==
  {DefaultOptions}
    \cup {[DefaultOptions EXCEPT !.cache = FALSE],
          [DefaultOptions EXCEPT !.sourceMap = TRUE],
          [DefaultOptions EXCEPT !.warningsFilter = "drop"],
          [DefaultOptions EXCEPT !.warningsFilter = "throw"],
          [DefaultOptions EXCEPT !.sourceMap = TRUE, !.warningsFilter = "dropMapped"],
          [DefaultOptions EXCEPT !.exclude = [defined |-> TRUE, set |-> {MaxCss}]],
          [DefaultOptions EXCEPT !.exclude = [defined |-> TRUE, set |-> CssNames]]}

\* The assets of a fresh compilation holding text content[n] under name n.
FreshAssets(content) ==
  [n \in Names |-> [source |-> FreshSource(content[n]),
                    info |-> [FreshInfo EXCEPT !.immutable = (n % 2 = 1)]]]

InitialContent == [n \in Names |-> (n % MaxContent) + 1]

\* Successive runs sharing one cache: the default options on every CPU report, and
\* each changed option (or a failing cache backend) on the largest machine.
InitRuns ==
  /\ \/ options = DefaultOptions /\ cpus \in CpuReports /\ cacheFails = FALSE
     \/ /\ options \in OptionSets
        /\ cpus = [undef |-> FALSE, length |-> MaxCpus]
        /\ cacheFails \in {FALSE, options = DefaultOptions}
  /\ budget = MaxRuns

\* One run under every parallel setting on every CPU report, over all the *.css
\* assets or all but one.
InitCores ==
  /\ \E p \in ParallelSettings, x \in {DefaultOptions.exclude, [defined |-> TRUE, set |-> {MaxCss}]} :
       options = [DefaultOptions EXCEPT !.parallel = p, !.exclude = x]
  /\ cpus \in CpuReports
  /\ cacheFails = FALSE
  /\ budget = 1

\* The devtool strings, told apart by the substrings apply() looks for.
DevtoolMarks == {"eval", "cheap", "source-map", "sourcemap"}
Devtools ==
  {[truthy |-> FALSE, marks |-> {}]}
    \cup {[truthy |-> TRUE, marks |-> m] : m \in SUBSET DevtoolMarks}

\* The plugins of compiler.options: a SourceMapDevToolPlugin with options.columns
\* set, one with columns off, one without options, and some other plugin.
PluginKinds ==
  {[sourceMapDevTool |-> TRUE, options |-> TRUE, columns |-> TRUE],
   [sourceMapDevTool |-> TRUE, options |-> TRUE, columns |-> FALSE],
   [sourceMapDevTool |-> TRUE, options |-> FALSE, columns |-> FALSE],
   [sourceMapDevTool |-> FALSE, options |-> TRUE, columns |-> TRUE]}
PluginLists ==
  {[defined |-> FALSE, list |-> {}]}
    \cup {[defined |-> TRUE, list |-> l] : l \in SUBSET PluginKinds}

\* The sourceMap option as passed to the constructor: undefined, true or false.
SourceMapOptions ==
  {[defined |-> FALSE, value |-> FALSE],
   [defined |-> TRUE, value |-> TRUE],
   [defined |-> TRUE, value |-> FALSE]}

\* apply() with the `cheap` test left out.
ResolveSourceMap_AllowsCheap(sourceMap, devtool, plugins) ==
  IF ~sourceMap.defined
  THEN \/ /\ devtool.truthy
          /\ "eval" \notin devtool.marks
          /\ ("source-map" \in devtool.marks \/ "sourcemap" \in devtool.marks)
       \/ /\ plugins.defined
          /\ \E plugin \in plugins.list :
               plugin.sourceMapDevTool /\ plugin.options /\ plugin.columns
  ELSE sourceMap.value

\* apply(), lines 417-432: the truthiness of the value assigned to
\* this.options.sourceMap.
ResolveSourceMap(sourceMap, devtool, plugins) ==
  IF ~sourceMap.defined
  THEN \/ /\ devtool.truthy
          /\ "eval" \notin devtool.marks
          /\ "cheap" \notin devtool.marks
          /\ ("source-map" \in devtool.marks \/ "sourcemap" \in devtool.marks)
       \/ /\ plugins.defined
          /\ \E plugin \in plugins.list :
               plugin.sourceMapDevTool /\ plugin.options /\ plugin.columns
  ELSE sourceMap.value

\* The state of a compilation before any run.
InitCompilation ==
  /\ assets = FreshAssets(InitialContent)
  /\ errors = <<>>
  /\ warnings = <<>>
  /\ cacheStore = {}
  /\ runPc = "idle"
  /\ assetNames = <<>>
  /\ cores = 0
  /\ concurrency = 0
  /\ worker = [state |-> "none", numWorkers |-> 0]
  /\ queue = <<>>
  /\ tasks = [n \in Names |-> IdleTask]
  /\ pre = [assets |-> assets, errors |-> 0, warnings |-> 0, cache |-> {}, wrote |-> {}]
  /\ calls = [n \in Names |-> 0]
  /\ wrote = {}

\* The plugin is applied: its sourceMap option is the one the runs read.
Init ==
  /\ (InitRuns \/ InitCores)
  /\ compiler = [sourceMap |-> [defined |-> TRUE, value |-> options.sourceMap],
                 devtool |-> [truthy |-> FALSE, marks |-> {}],
                 plugins |-> [defined |-> FALSE, list |-> {}],
                 applied |-> TRUE]
  /\ InitCompilation

\* The plugin is constructed and not applied yet, under every sourceMap option,
\* devtool and plugin list; options.sourceMap is the truthiness of the option.
InitApply ==
  /\ \E sm \in SourceMapOptions, d \in Devtools, pl \in PluginLists :
       /\ compiler = [sourceMap |-> sm, devtool |-> d, plugins |-> pl, applied |-> FALSE]
       /\ options = [DefaultOptions EXCEPT !.sourceMap = sm.value]
  /\ cpus = [undef |-> FALSE, length |-> MaxCpus]
  /\ cacheFails = FALSE
  /\ budget = 1
  /\ InitCompilation

\* ------------------------------------------------------------ task states
Active(n) == tasks[n].pc \in {"get", "minify", "store"}
ActiveCount == Cardinality({n \in Names : Active(n)})
Settled(n) == tasks[n].pc \in {"idle", "fulfilled", "rejected"}
Quiescent == queue = <<>> /\ \A n \in Names : Settled(n)

\* static updateAsset(compilation, name, newSource, assetInfo): the assets after
\* compilation.updateAsset merged assetInfo over the stored info.
updateAsset(name, newSource, assetInfo) ==
  IF HasAssetApi
  THEN [assets EXCEPT ![name] = [source |-> newSource, info |-> assetInfo]]
  ELSE [assets EXCEPT ![name].source = newSource]

\* newInfo built without spreading the prior info.
NewInfo_DropsPrior(info) == [minimized |-> TRUE, immutable |-> FALSE]

\* const newInfo = { ...info, minimized: true }
NewInfo(info) == [info EXCEPT !.minimized = TRUE]

\* A selection that keeps the names already flagged minimized.
SelectAssetNames_IgnoresMinimized ==
  SetToSeq({n \in Names : matchObject(options, n)})

\* optimize(), lines 193-213: the names that match and are not minimized yet.
SelectAssetNames ==
  SetToSeq({n \in Names : matchObject(options, n) /\ ~getAsset(n).info.minimized})

\* Pool creation that needs more than one available core.
CreatesWorker_OffByOne(availableNumberOfCores) == availableNumberOfCores > 1

\* optimize(), lines 226-230: whether a worker pool is created for these cores.
CreatesWorker(availableNumberOfCores) == availableNumberOfCores > 0

\* numWorkers taken from the number of files alone.
NumWorkers_AssetCount(nAssets, availableNumberOfCores) == nAssets

\* optimize(), line 228
NumWorkers(nAssets, availableNumberOfCores) == Min(nAssets, availableNumberOfCores)

\* apply(compiler), lines 413-494: this.options.sourceMap is resolved and the
\* hooks that call optimize() are tapped.
Apply ==
  /\ ~compiler.applied
  /\ options' = [options EXCEPT !.sourceMap =
                    ResolveSourceMap(compiler.sourceMap, compiler.devtool, compiler.plugins)]
  /\ compiler' = [compiler EXCEPT !.applied = TRUE]
  /\ UNCHANGED <<cpus, cacheFails, assets, errors, warnings, cacheStore, runPc, assetNames,
                 cores, concurrency, worker, queue, tasks, pre, calls, wrote, budget>>

\* optimize(), lines 192-258: selection, pool creation, scheduling of the tasks.
\* It runs from the hooks apply() tapped.
Optimize ==
  /\ compiler.applied
  /\ runPc \in {"idle", "resolved", "rejected"}
  /\ Quiescent
  /\ budget > 0
  /\ budget' = budget - 1
  /\ pre' = [assets |-> assets, errors |-> Len(errors), warnings |-> Len(warnings),
             cache |-> cacheStore, wrote |-> wrote]
  /\ calls' = [n \in Names |-> 0]
  /\ assetNames' = SelectAssetNames
  /\ IF Len(SelectAssetNames) = 0
     THEN /\ runPc' = "resolved"
          /\ tasks' = [n \in Names |-> IdleTask]
          /\ worker' = [state |-> "none", numWorkers |-> 0]
          /\ UNCHANGED <<cores, concurrency, queue>>
     ELSE LET availableNumberOfCores == getAvailableNumberOfCores(options.parallel)
              numWorkers == NumWorkers(Len(SelectAssetNames), availableNumberOfCores)
          IN /\ cores' = availableNumberOfCores
             /\ IF CreatesWorker(availableNumberOfCores)
                THEN /\ concurrency' = numWorkers
                     /\ worker' = [state |-> "created", numWorkers |-> numWorkers]
                ELSE /\ concurrency' = 0
                     /\ worker' = [state |-> "none", numWorkers |-> 0]
             /\ queue' = SelectAssetNames
             /\ tasks' = [n \in Names |->
                            IF n \in Range(SelectAssetNames)
                            THEN [IdleTask EXCEPT !.pc = "queued"] ELSE IdleTask]
             /\ runPc' = "running"
  /\ UNCHANGED <<options, cpus, compiler, cacheFails, assets, errors, warnings, cacheStore, wrote>>

\* A limiter that starts tasks only until the first one has finished.
MayStart_NoDequeue(n) ==
  /\ queue # <<>>
  /\ Head(queue) = n
  /\ \/ concurrency = 0
     \/ /\ ActiveCount < concurrency
        /\ \A m \in Names : tasks[m].pc \notin {"fulfilled", "rejected"}

\* p-limit: a queued task may start when fewer than `concurrency` are running.
MayStart(n) ==
  /\ queue # <<>>
  /\ Head(queue) = n
  /\ (concurrency = 0 \/ ActiveCount < concurrency)

\* The task keeps the input map only when it passes isSourceMap.
TaskStart_DropsInvalidMap(n) ==
  /\ MayStart(n)
  /\ queue' = Tail(queue)
  /\ LET asset == getAsset(n)
         withMap == options.sourceMap
         map == asset.source.map
     IN IF asset.info.minimized
        THEN /\ tasks' = [tasks EXCEPT ![n].pc = "fulfilled", ![n].outcome = "skipped"]
             /\ UNCHANGED warnings
        ELSE /\ tasks' = [tasks EXCEPT ![n].pc = "get",
                                       ![n].info = asset.info,
                                       ![n].input = asset.source.code.text,
                                       ![n].inputSourceMap =
                                          IF withMap /\ isSourceMap(map) THEN map ELSE NoMap]
             /\ warnings' = IF withMap /\ map # NoMap /\ ~isSourceMap(map)
                            THEN Append(warnings,
                                   [kind |-> "invalid source map", file |-> n,
                                    msg |-> 0, location |-> ""])
                            ELSE warnings
  /\ UNCHANGED <<options, cpus, compiler, cacheFails, assets, errors, cacheStore, runPc, assetNames, cores,
                 concurrency, worker, pre, calls, wrote, budget>>

\* The task does not look at info.minimized when it starts.
TaskStart_NoSkip(n) ==
  /\ MayStart(n)
  /\ queue' = Tail(queue)
  /\ LET asset == getAsset(n)
         withMap == options.sourceMap
         map == asset.source.map
     IN /\ tasks' = [tasks EXCEPT ![n].pc = "get",
                                  ![n].info = asset.info,
                                  ![n].input = asset.source.code.text,
                                  ![n].inputSourceMap = IF withMap THEN map ELSE NoMap]
        /\ warnings' = IF withMap /\ map # NoMap /\ ~isSourceMap(map)
                       THEN Append(warnings,
                              [kind |-> "invalid source map", file |-> n,
                               msg |-> 0, location |-> ""])
                       ELSE warnings
  /\ UNCHANGED <<options, cpus, compiler, cacheFails, assets, errors, cacheStore, runPc, assetNames, cores,
                 concurrency, worker, pre, calls, wrote, budget>>

\* The task of one asset, lines 259-322: read the asset, return if it is minimized
\* already, extract input and input map, warn about an invalid map, ask the cache.
\* Every source offers sourceAndMap(); texts are strings (no Buffer to decode).
TaskStart(n) ==
  /\ MayStart(n)
  /\ queue' = Tail(queue)
  /\ LET asset == getAsset(n)
         withMap == options.sourceMap
         map == asset.source.map
     IN IF asset.info.minimized
        THEN /\ tasks' = [tasks EXCEPT ![n].pc = "fulfilled", ![n].outcome = "skipped"]
             /\ UNCHANGED warnings
        ELSE /\ tasks' = [tasks EXCEPT ![n].pc = "get",
                                       ![n].info = asset.info,
                                       ![n].input = asset.source.code.text,
                                       ![n].inputSourceMap = IF withMap THEN map ELSE NoMap]
             /\ warnings' = IF withMap /\ map # NoMap /\ ~isSourceMap(map)
                            THEN Append(warnings,
                                   [kind |-> "invalid source map", file |-> n,
                                    msg |-> 0, location |-> ""])
                            ELSE warnings
  /\ UNCHANGED <<options, cpus, compiler, cacheFails, assets, errors, cacheStore, runPc, assetNames, cores,
                 concurrency, worker, pre, calls, wrote, budget>>

\* new SourceMapConsumer(inputSourceMap) when the map passes isSourceMap, else null.
Consumer(inputSourceMap) ==
  IF inputSourceMap # NoMap /\ isSourceMap(inputSourceMap) THEN inputSourceMap ELSE NoMap

RECURSIVE BuildWarnings(_, _, _, _)
\* output.warnings.forEach(...), lines 373-389: the entries pushed, and whether
\* the loop was left by an exception of the filter.
BuildWarnings(opts, ws, file, sourceMap) ==
  IF ws = <<>> THEN [threw |-> FALSE, pushed |-> <<>>]
  ELSE LET builtWarning == buildWarning(opts, Head(ws), file, sourceMap)
       IN IF builtWarning.kind = "throw" THEN [threw |-> TRUE, pushed |-> <<>>]
          ELSE LET rest == BuildWarnings(opts, Tail(ws), file, sourceMap)
               IN [threw |-> rest.threw,
                   pushed |-> IF builtWarning.kind = "null" THEN rest.pushed
                              ELSE <<builtWarning>> \o rest.pushed]

\* Lines 373-395: record the warnings of `output`, then replace the asset.
WriteBack(n, output) ==
  LET built == BuildWarnings(options, output.warnings, n, Consumer(tasks[n].inputSourceMap))
  IN /\ warnings' = warnings \o built.pushed
     /\ IF built.threw
        THEN /\ tasks' = [tasks EXCEPT ![n].pc = "rejected", ![n].output = output]
             /\ UNCHANGED <<assets, wrote>>
        ELSE /\ assets' = updateAsset(n, output.source, NewInfo(tasks[n].info))
             /\ tasks' = [tasks EXCEPT ![n].pc = "fulfilled", ![n].outcome = "updated",
                                       ![n].output = output]
             /\ wrote' = wrote \cup {[name |-> n, input |-> tasks[n].input,
                                      source |-> output.source]}

\* Line 338: the call goes to the worker pool when there is one.
Dispatch == IF worker.state # "none" THEN "worker" ELSE "inproc"

\* The minifier is called whatever the cache lookup returned.
CacheGetReturn_AlwaysMinifies(n) ==
  /\ tasks[n].pc = "get"
  /\ tasks' = [tasks EXCEPT ![n].pc = "minify", ![n].via = Dispatch]
  /\ calls' = [calls EXCEPT ![n] = @ + 1]
  /\ UNCHANGED <<assets, warnings, wrote>>
  /\ UNCHANGED <<options, cpus, compiler, cacheFails, errors, cacheStore, runPc, assetNames, cores,
                 concurrency, worker, queue, pre, budget>>

\* await cache.get(...) returns, lines 322-340: on a hit the output is written
\* back; on a miss the minifier is called.
CacheGetReturn(n) ==
  /\ tasks[n].pc = "get"
  /\ LET output == CacheGet(options, n, tasks[n].input)
     IN IF output.present
        THEN /\ WriteBack(n, output)
             /\ UNCHANGED calls
        ELSE /\ tasks' = [tasks EXCEPT ![n].pc = "minify", ![n].via = Dispatch]
             /\ calls' = [calls EXCEPT ![n] = @ + 1]
             /\ UNCHANGED <<assets, warnings, wrote>>
  /\ UNCHANGED <<options, cpus, compiler, cacheFails, errors, cacheStore, runPc, assetNames, cores,
                 concurrency, worker, queue, pre, budget>>

\* await cache.get(...) rejects: nothing catches it, the task's promise rejects.
CacheGetThrow(n) ==
  /\ tasks[n].pc = "get"
  /\ options.cache /\ cacheFails
  /\ tasks' = [tasks EXCEPT ![n].pc = "rejected"]
  /\ UNCHANGED <<options, cpus, compiler, cacheFails, assets, errors, warnings, cacheStore, runPc, assetNames,
                 cores, concurrency, worker, queue, pre, calls, wrote, budget>>

\* The minifier call returns, lines 357-370: the output source is built and
\* cache.store is called.
MinifyReturn(n) ==
  /\ tasks[n].pc = "minify"
  /\ LET result == minifyFn([name |-> n, input |-> tasks[n].input,
                             inputSourceMap |-> tasks[n].inputSourceMap,
                             map |-> options.sourceMap,
                             minimizerOptions |-> options.minimizerOptions])
         output == [present |-> TRUE, code |-> result.code, map |-> result.map,
                    warnings |-> result.warnings, source |-> OutputSource(result)]
     IN tasks' = [tasks EXCEPT ![n].pc = "store", ![n].output = output]
  /\ UNCHANGED <<options, cpus, compiler, cacheFails, assets, errors, warnings, cacheStore, runPc, assetNames,
                 cores, concurrency, worker, queue, pre, calls, wrote, budget>>

\* The error the minifier throws when it fails on an input text: with a position
\* (a CssSyntaxError), with a stack only, or with a message only.
ErrorFor(text) ==
  [line |-> text % 3 = 1, stack |-> text % 3 # 0]

\* The catch block also flags the asset as minimized.
MinifyThrow_MarksMinimized(n) ==
  /\ tasks[n].pc = "minify"
  /\ errors' = Append(errors, buildError(ErrorFor(tasks[n].input), n,
                                          Consumer(tasks[n].inputSourceMap)))
  /\ assets' = updateAsset(n, assets[n].source, NewInfo(tasks[n].info))
  /\ tasks' = [tasks EXCEPT ![n].pc = "fulfilled", ![n].outcome = "failed"]
  /\ UNCHANGED <<options, cpus, compiler, cacheFails, warnings, cacheStore, runPc, assetNames,
                 cores, concurrency, worker, queue, pre, calls, wrote, budget>>

\* The catch block also drops every task still waiting in the limiter.
MinifyThrow_CancelsSiblings(n) ==
  /\ tasks[n].pc = "minify"
  /\ errors' = Append(errors, buildError(ErrorFor(tasks[n].input), n,
                                          Consumer(tasks[n].inputSourceMap)))
  /\ queue' = <<>>
  /\ tasks' = [m \in Names |->
                IF m = n THEN [tasks[m] EXCEPT !.pc = "fulfilled", !.outcome = "failed"]
                ELSE IF tasks[m].pc = "queued"
                     THEN [tasks[m] EXCEPT !.pc = "fulfilled", !.outcome = "skipped"]
                     ELSE tasks[m]]
  /\ UNCHANGED <<options, cpus, compiler, cacheFails, assets, warnings, cacheStore, runPc, assetNames,
                 cores, concurrency, worker, pre, calls, wrote, budget>>

\* The catch block assigns a new list holding its error to compilation.errors.
MinifyThrow_ReplacesErrors(n) ==
  /\ tasks[n].pc = "minify"
  /\ errors' = <<buildError(ErrorFor(tasks[n].input), n, Consumer(tasks[n].inputSourceMap))>>
  /\ tasks' = [tasks EXCEPT ![n].pc = "fulfilled", ![n].outcome = "failed"]
  /\ UNCHANGED <<options, cpus, compiler, cacheFails, assets, warnings, cacheStore, runPc, assetNames,
                 cores, concurrency, worker, queue, pre, calls, wrote, budget>>

\* The catch block also stores the failed call's empty result in the cache.
MinifyThrow_StoresFailure(n) ==
  /\ tasks[n].pc = "minify"
  /\ errors' = Append(errors, buildError(ErrorFor(tasks[n].input), n,
                                          Consumer(tasks[n].inputSourceMap)))
  /\ cacheStore' = CacheStore(options, n, tasks[n].input, [NoOutput EXCEPT !.present = TRUE])
  /\ tasks' = [tasks EXCEPT ![n].pc = "fulfilled", ![n].outcome = "failed"]
  /\ UNCHANGED <<options, cpus, compiler, cacheFails, assets, warnings, runPc, assetNames,
                 cores, concurrency, worker, queue, pre, calls, wrote, budget>>

\* The minifier call fails, lines 341-355: one error is pushed, the task returns.
MinifyThrow(n) ==
  /\ tasks[n].pc = "minify"
  /\ errors' = Append(errors, buildError(ErrorFor(tasks[n].input), n,
                                          Consumer(tasks[n].inputSourceMap)))
  /\ tasks' = [tasks EXCEPT ![n].pc = "fulfilled", ![n].outcome = "failed"]
  /\ UNCHANGED <<options, cpus, compiler, cacheFails, assets, warnings, cacheStore, runPc, assetNames,
                 cores, concurrency, worker, queue, pre, calls, wrote, budget>>

\* The result is written back without having been stored in the cache.
CacheStoreReturn_NoStore(n) ==
  /\ tasks[n].pc = "store"
  /\ WriteBack(n, tasks[n].output)
  /\ UNCHANGED <<options, cpus, compiler, cacheFails, errors, cacheStore, runPc, assetNames, cores,
                 concurrency, worker, queue, pre, calls, budget>>

\* await cache.store(...) returns, lines 370-395.
CacheStoreReturn(n) ==
  /\ tasks[n].pc = "store"
  /\ cacheStore' = CacheStore(options, n, tasks[n].input, tasks[n].output)
  /\ WriteBack(n, tasks[n].output)
  /\ UNCHANGED <<options, cpus, compiler, cacheFails, errors, runPc, assetNames, cores, concurrency, worker,
                 queue, pre, calls, budget>>

\* await cache.store(...) rejects: the task's promise rejects.
CacheStoreThrow(n) ==
  /\ tasks[n].pc = "store"
  /\ options.cache /\ cacheFails
  /\ tasks' = [tasks EXCEPT ![n].pc = "rejected"]
  /\ UNCHANGED <<options, cpus, compiler, cacheFails, assets, errors, warnings, cacheStore, runPc, assetNames,
                 cores, concurrency, worker, queue, pre, calls, wrote, budget>>

\* A combinator that settles with the first task to fulfil.
AllFulfilled_Any ==
  \E i \in 1..Len(assetNames) : tasks[assetNames[i]].pc = "fulfilled"

\* Promise.all(scheduledTasks) settles once every task has fulfilled.
AllFulfilled == \A i \in 1..Len(assetNames) : tasks[assetNames[i]].pc = "fulfilled"
AnyRejected == \E i \in 1..Len(assetNames) : tasks[assetNames[i]].pc = "rejected"

\* Lines 400-404: Promise.all fulfils; worker.end() is called when a pool exists.
AwaitAll ==
  /\ runPc = "running"
  /\ AllFulfilled
  /\ runPc' = IF worker.state # "none" THEN "ending" ELSE "resolved"
  /\ UNCHANGED <<options, cpus, compiler, cacheFails, assets, errors, warnings, cacheStore, assetNames, cores,
                 concurrency, worker, queue, tasks, pre, calls, wrote, budget>>

\* Line 403: await worker.end() returns; line 406: optimize resolves.
WorkerEnd ==
  /\ runPc = "ending"
  /\ worker' = [worker EXCEPT !.state = "ended"]
  /\ runPc' = "resolved"
  /\ UNCHANGED <<options, cpus, compiler, cacheFails, assets, errors, warnings, cacheStore, assetNames, cores,
                 concurrency, queue, tasks, pre, calls, wrote, budget>>

\* Line 400: Promise.all rejects with the first task rejection; optimize rejects.
RejectAll ==
  /\ runPc = "running"
  /\ AnyRejected
  /\ runPc' = "rejected"
  /\ UNCHANGED <<options, cpus, compiler, cacheFails, assets, errors, warnings, cacheStore, assetNames, cores,
                 concurrency, worker, queue, tasks, pre, calls, wrote, budget>>

\* The bundler starts the next compilation: fresh assets, at most one of them with
\* another text than before, and empty diagnostics; the cache is kept.
NewCompilation ==
  /\ runPc \in {"resolved", "rejected"}
  /\ Quiescent
  /\ \E n \in CssNames, c \in Contents :
       /\ assets' = FreshAssets([m \in Names |->
                       IF m = n THEN c ELSE pre.assets[m].source.code.text])
       /\ pre' = [assets |-> assets', errors |-> 0, warnings |-> 0,
                  cache |-> cacheStore, wrote |-> wrote]
  /\ errors' = <<>>
  /\ warnings' = <<>>
  /\ runPc' = "idle"
  /\ assetNames' = <<>>
  /\ cores' = 0
  /\ concurrency' = 0
  /\ tasks' = [n \in Names |-> IdleTask]
  /\ calls' = [n \in Names |-> 0]
  /\ worker' = [state |-> "none", numWorkers |-> 0]
  /\ UNCHANGED <<options, cpus, compiler, cacheFails, cacheStore, queue, wrote, budget>>

\* Another run of the plugin, on a child compilation that shares the asset n,
\* writes n back minified (lines 392-395) while this run has n scheduled or in
\* progress.
ChildMinimizes(n) ==
  /\ tasks[n].pc \in {"queued", "get", "minify", "store"}
  /\ ~assets[n].info.minimized
  /\ assets' = updateAsset(n, [assets[n].source EXCEPT !.code.min = TRUE],
                           NewInfo(assets[n].info))
  /\ UNCHANGED <<options, cpus, compiler, cacheFails, errors, warnings, cacheStore, runPc,
                 assetNames, cores, concurrency, worker, queue, tasks, pre, calls, wrote,
                 budget>>

Next ==
  \/ Optimize
  \/ \E n \in Names : TaskStart(n)
  \/ \E n \in Names : CacheGetReturn(n)
  \/ \E n \in Names : CacheGetThrow(n)
  \/ \E n \in Names : MinifyReturn(n)
  \/ \E n \in Names : MinifyThrow(n)
  \/ \E n \in Names : CacheStoreReturn(n)
  \/ \E n \in Names : CacheStoreThrow(n)
  \/ AwaitAll
  \/ WorkerEnd
  \/ RejectAll
  \/ NewCompilation

Spec == Init /\ [][Next]_vars

\* A single run on the largest machine, under every parallel setting and every
\* changed option, with a cache backend that answers or fails.
InitFair ==
  /\ \/ \E p \in ParallelSettings :
          options = [DefaultOptions EXCEPT !.parallel = p] /\ cacheFails = FALSE
     \/ options \in OptionSets /\ cacheFails \in {FALSE, options = DefaultOptions}
  /\ cpus = [undef |-> FALSE, length |-> MaxCpus]
  /\ compiler = [sourceMap |-> [defined |-> TRUE, value |-> options.sourceMap],
                 devtool |-> [truthy |-> FALSE, marks |-> {}],
                 plugins |-> [defined |-> FALSE, list |-> {}],
                 applied |-> TRUE]
  /\ budget = 1
  /\ InitCompilation

\* The event loop runs every continuation that is ready: a queued task the
\* limiter has a slot for is started, every pending cache operation and minifier
\* call returns or fails, and the continuations of optimize() after Promise.all
\* and worker.end() run. The host is not obliged to call optimize() again.
Fairness ==
  /\ \A n \in Names :
       /\ WF_vars(TaskStart(n))
       /\ WF_vars(CacheGetReturn(n) \/ CacheGetThrow(n))
       /\ WF_vars(MinifyReturn(n) \/ MinifyThrow(n))
       /\ WF_vars(CacheStoreReturn(n) \/ CacheStoreThrow(n))
  /\ WF_vars(AwaitAll)
  /\ WF_vars(WorkerEnd)
  /\ WF_vars(RejectAll)

SpecFair == InitFair /\ [][Next]_vars /\ Fairness

\* One run beside a concurrent child-compilation run that shares the assets.
NextChild ==
  \/ Optimize
  \/ \E n \in Names : TaskStart(n)
  \/ \E n \in Names : CacheGetReturn(n)
  \/ \E n \in Names : CacheGetThrow(n)
  \/ \E n \in Names : MinifyReturn(n)
  \/ \E n \in Names : MinifyThrow(n)
  \/ \E n \in Names : CacheStoreReturn(n)
  \/ \E n \in Names : CacheStoreThrow(n)
  \/ AwaitAll
  \/ WorkerEnd
  \/ RejectAll
  \/ NewCompilation
  \/ \E n \in Names : ChildMinimizes(n)

SpecChild == InitFair /\ [][NextChild]_vars

\* The plugin being applied to a compiler, under every configuration of the
\* sourceMap option, the devtool and the plugins.
NextApply == Apply

SpecApply == InitApply /\ [][NextApply]_vars

\* ====================================================================
\* Properties
\* ====================================================================
Selected == Range(assetNames)

\* The entries this run appended to compilation.errors / warnings for a name.
ErrorsFor(n) == {i \in (pre.errors + 1)..Len(errors) : errors[i].file = n}
WarningsFor(n) == {i \in (pre.warnings + 1)..Len(warnings) : warnings[i].file = n}

\* The task of n fulfilled without having recorded an error.
Succeeded(n) == n \in Selected /\ tasks[n].pc = "fulfilled" /\ ErrorsFor(n) = {}

\* The minified source the run is to produce for n.
MinifiedOf(n) == [min |-> TRUE, text |-> pre.assets[n].source.code.text]

\* The name fails the configured test pattern, is not among the included names,
\* or is among the excluded ones.
NotMatching(n) ==
  \/ n \notin options.test
  \/ options.include.defined /\ n \notin options.include.set
  \/ options.exclude.defined /\ n \in options.exclude.set

\* C1: an asset that does not match test/include/exclude, or that is flagged
\* minimized when the run selects its assets, keeps its source and info through
\* the run, gets no task and no minifier call, and no error or warning is
\* recorded for it.
C1_UnselectedUntouched ==
  \A n \in Names :
    (NotMatching(n) \/ pre.assets[n].info.minimized) =>
      /\ assets[n] = pre.assets[n]
      /\ tasks[n].pc = "idle"
      /\ calls[n] = 0
      /\ ErrorsFor(n) = {}
      /\ WarningsFor(n) = {}

\* A finished run that transformed one asset while another one was flagged
\* minimized beforehand and a third did not match.
C1_Witness ==
  /\ runPc = "resolved"
  /\ \E n \in Names : NotMatching(n)
  /\ \E n \in Names : ~NotMatching(n) /\ pre.assets[n].info.minimized
  /\ \E n \in Names : tasks[n].outcome = "updated" /\ assets[n] # pre.assets[n]

\* C2: after a failed minifier call the asset's source and minimized flag are
\* what they were before the run, and exactly one entry naming the asset has
\* been appended to compilation.errors.
C2_FailedAssetUntouched ==
  \A n \in Names :
    tasks[n].outcome = "failed" =>
      /\ assets[n].source = pre.assets[n].source
      /\ assets[n].info.minimized = pre.assets[n].info.minimized
      /\ Cardinality(ErrorsFor(n)) = 1

\* A finished run in which one minifier call failed, through the pool or in-process.
C2_Witness ==
  /\ runPc = "resolved"
  /\ \E n \in Names : tasks[n].outcome = "failed" /\ tasks[n].via = "worker"

C4_ContentProcessedTwice ==
  options.cache =>
    \A n \in Selected : \A r \in pre.wrote :
      r.input = tasks[n].input =>
        /\ calls[n] = 0
        /\ (tasks[n].outcome = "updated" => assets[n].source = r.source)

\* C4 (amended): with caching enabled, an input text that an earlier run sharing
\* the cache has minified and written back under the same asset name costs a
\* later run no minifier call for that asset, and any output the later run writes
\* back for it is the one the earlier run wrote.
C4_SameNameProcessedTwice ==
  options.cache =>
    \A n \in Selected : \A r \in pre.wrote :
      (r.name = n /\ r.input = tasks[n].input) =>
        /\ calls[n] = 0
        /\ (tasks[n].outcome = "updated" => assets[n].source = r.source)

\* A later compilation holds the text an earlier run wrote back under the same
\* name, and its run has written the asset back.
C4_Witness ==
  /\ options.cache
  /\ \E n \in Selected : \E r \in pre.wrote :
       /\ r.name = n /\ r.input = tasks[n].input
       /\ ~pre.assets[n].info.minimized
       /\ tasks[n].outcome = "updated"
       /\ assets[n].source = r.source

\* C6: while the computed unit count is positive, at most that many tasks have
\* started and not finished; the limiter is unbounded exactly when the count is
\* not positive.
C6_ConcurrencyBound ==
  assetNames # <<>> =>
    /\ (cores > 0 => ActiveCount <= cores /\ concurrency > 0 /\ concurrency <= cores)
    /\ (concurrency = 0) = (cores <= 0)

\* The limit is reached while a task still waits.
C6_Witness ==
  /\ cores > 0
  /\ ActiveCount = cores
  /\ queue # <<>>

\* C7 (as stated): the computed number of usable workers is max(c - 1, 0) for
\* parallel = true and min(n, max(c - 1, 0)) for an explicit number n.
C7_CoresClamped ==
  assetNames # <<>> =>
    LET c == IF cpus.undef THEN 1 ELSE cpus.length
        available == IF c - 1 > 0 THEN c - 1 ELSE 0
    IN cores = IF options.parallel.auto THEN available
               ELSE Min(options.parallel.number, available)

\* C8 (as stated): no pool and in-process calls whenever the worker count is 0 or
\* fewer assets are selected than there are worker slots; a pool otherwise.
C8_NoPoolWhenFewAssets ==
  assetNames # <<>> =>
    IF cores <= 0 \/ Len(assetNames) < cores
    THEN /\ worker.state = "none"
         /\ \A n \in Names : tasks[n].via # "worker"
    ELSE /\ worker.state # "none"
         /\ \A n \in Names : tasks[n].via # "inproc"

\* C8 (amended): a run with a non-empty selection creates no pool and calls the
\* minifier in-process exactly when the computed worker count is not positive;
\* otherwise it creates a pool of min(selected assets, worker count) workers and
\* dispatches every call to it, also when fewer assets are selected than workers
\* are available. A run with an empty selection creates no pool.
C8_PoolIffCoresPositive ==
  /\ assetNames # <<>> =>
       IF cores <= 0
       THEN /\ worker.state = "none"
            /\ \A n \in Names : tasks[n].via # "worker"
       ELSE /\ worker.state # "none"
            /\ worker.numWorkers = Min(Len(assetNames), cores)
            /\ \A n \in Names : tasks[n].via # "inproc"
  /\ assetNames = <<>> => worker.state = "none"

\* Fewer assets than available cores, and the call went to the pool.
C8_Witness ==
  /\ assetNames # <<>>
  /\ Len(assetNames) < cores
  /\ \E n \in Names : tasks[n].via = "worker"

\* C9 (as stated): a run that created a pool has terminated it when it finishes,
\* whatever the outcome of its tasks, and terminates it only after all tasks have
\* completed; a run without a pool attempts no termination.
C9_PoolTerminated ==
  /\ (runPc \in {"resolved", "rejected"} /\ assetNames # <<>> /\ cores > 0)
       => worker.state = "ended"
  /\ (runPc = "ending" \/ worker.state = "ended") =>
       (Quiescent /\ cores > 0)

\* C10: optimize resolves (and terminates the pool) only when every selected
\* task has reached a terminal outcome: asset updated, or error recorded.
C10_ResolvesAfterAllTasks ==
  runPc \in {"ending", "resolved"} =>
    /\ queue = <<>>
    /\ \A n \in Selected :
         /\ tasks[n].pc = "fulfilled"
         /\ \/ assets[n].info.minimized /\ assets[n].source.code = MinifiedOf(n)
            \/ Cardinality(ErrorsFor(n)) = 1 /\ assets[n] = pre.assets[n]

\* A resolved run over several assets, all of them updated.
C10_Witness ==
  /\ runPc = "resolved"
  /\ Len(assetNames) > 1
  /\ \A n \in Selected : tasks[n].outcome = "updated"

\* C11 (as stated): no failure met while an asset is processed makes optimize
\* reject: no task's promise rejects and the run never ends rejected.
C11_NeverRejects ==
  /\ runPc # "rejected"
  /\ \A n \in Names : tasks[n].pc # "rejected"

\* The task of n has been started by the limiter in this run.
Started(n) == n \in Selected /\ tasks[n].pc \notin {"idle", "queued"}

\* The asset n carried, when the run began, an input map that fails isSourceMap.
HadInvalidMap(n) ==
  pre.assets[n].source.map # NoMap /\ pre.assets[n].source.map # "valid"

\* C12: with source maps requested, once the task of an asset whose input map
\* fails the structural check has started, exactly one warning naming the asset
\* and reporting the invalid map has been appended, the task holds that same map
\* as the inputSourceMap it hands to the minifier, and when the task fulfils
\* without an error the asset has been replaced by the minified source and
\* flagged minimized.
C12_InvalidMapWarnedAndKept ==
  \A n \in Names :
    (options.sourceMap /\ Started(n) /\ HadInvalidMap(n)) =>
      /\ Cardinality({i \in WarningsFor(n) : warnings[i].kind = "invalid source map"}) = 1
      /\ tasks[n].inputSourceMap = pre.assets[n].source.map
      /\ Succeeded(n) =>
           /\ assets[n].info.minimized
           /\ assets[n].source.code = MinifiedOf(n)

\* An asset with an invalid input map went through the minifier, which was handed
\* the map, and was written back minified.
C12_Witness ==
  /\ options.sourceMap
  /\ \E n \in Names :
       /\ HadInvalidMap(n)
       /\ Succeeded(n)
       /\ tasks[n].via # "none"
       /\ tasks[n].inputSourceMap = "invalid"
       /\ assets[n].info.minimized

\* What the configured filter answers for a warning the minifier returned for n:
\* the original source is resolved when the task holds a valid input map and the
\* warning has a position.
FilterKeeps(n, w) ==
  LET resolved == tasks[n].inputSourceMap = "valid" /\ w.pos
  IN \/ options.warningsFilter = "keep"
     \/ options.warningsFilter = "dropMapped" /\ ~resolved

\* C13: once the task of an asset has fulfilled with an output, the entries the
\* run appended to compilation.warnings for the warnings of that output are
\* exactly those the warningsFilter predicate answered true for (one entry per
\* such warning, none for the others), and the asset is updated and flagged
\* minimized whether or not warnings were dropped.
C13_WarningKeptIffFilterTrue ==
  \A n \in Names :
    (Succeeded(n) /\ tasks[n].output.present) =>
      /\ \A k \in 1..Len(tasks[n].output.warnings) :
           LET w == tasks[n].output.warnings[k]
           IN Cardinality({i \in WarningsFor(n) :
                             warnings[i].kind = "minifier" /\ warnings[i].msg = w.msg})
                = IF FilterKeeps(n, w) THEN 1 ELSE 0
      /\ Cardinality({i \in WarningsFor(n) : warnings[i].kind = "minifier"})
           <= Len(tasks[n].output.warnings)
      /\ assets[n].info.minimized
      /\ assets[n].source.code = MinifiedOf(n)

\* The filter dropped the warning of one asset because its original source was
\* resolved, and the asset was updated all the same.
C13_Witness ==
  /\ options.warningsFilter = "dropMapped"
  /\ \E n \in Names :
       /\ Succeeded(n)
       /\ tasks[n].output.warnings # <<>>
       /\ tasks[n].inputSourceMap = "valid"
       /\ \A i \in WarningsFor(n) : warnings[i].kind # "minifier"
       /\ assets[n].info.minimized

\* The default filter kept the warning of an asset: one entry was appended.
C13_KeptWitness ==
  /\ options.warningsFilter = "keep"
  /\ \E n \in Names :
       /\ Succeeded(n)
       /\ tasks[n].output.warnings # <<>>
       /\ \E i \in WarningsFor(n) : warnings[i].kind = "minifier"

\* When the run began no asset was both matching and not yet flagged minimized.
NothingToDo == \A n \in Names : NotMatching(n) \/ pre.assets[n].info.minimized

\* C14: a run that found nothing to select has resolved at once: it is never
\* seen running, ending or rejected, it created no worker pool, started no task
\* (so consulted no cache), called no minifier, and left the assets, the cache
\* and the lengths of compilation.errors and compilation.warnings as they were.
C14_EmptySelectionIsNoOp ==
  (runPc # "idle" /\ NothingToDo) =>
    /\ runPc = "resolved"
    /\ worker.state = "none"
    /\ queue = <<>>
    /\ \A n \in Names : tasks[n] = IdleTask /\ calls[n] = 0
    /\ assets = pre.assets
    /\ cacheStore = pre.cache
    /\ Len(errors) = pre.errors
    /\ Len(warnings) = pre.warnings

\* A run over assets that all match and were all minimized by the run before.
C14_Witness ==
  /\ runPc = "resolved"
  /\ NothingToDo
  /\ \A n \in CssNames : ~NotMatching(n) /\ pre.assets[n].info.minimized

\* A run under a configuration that no asset matches.
C14_NoMatchWitness ==
  /\ runPc = "resolved"
  /\ \A n \in Names : NotMatching(n)

\* The devtool asks for full source maps: it names neither `eval` nor `cheap`
\* and holds a source-map indicator.
DevtoolImpliesMaps ==
  /\ compiler.devtool.truthy
  /\ compiler.devtool.marks \cap {"eval", "cheap"} = {}
  /\ compiler.devtool.marks \cap {"source-map", "sourcemap"} # {}

\* A SourceMapDevToolPlugin with column info is among the configured plugins.
ColumnsPluginConfigured ==
  /\ compiler.plugins.defined
  /\ [sourceMapDevTool |-> TRUE, options |-> TRUE, columns |-> TRUE]
       \in compiler.plugins.list

\* C15: after apply, a sourceMap option that was set explicitly has kept its
\* value; one that was unset is truthy exactly when the devtool names neither
\* `eval` nor `cheap` and holds a source-map indicator, or a
\* SourceMapDevToolPlugin with column info is among the plugins.
C15_SourceMapResolved ==
  compiler.applied =>
    options.sourceMap = IF compiler.sourceMap.defined
                        THEN compiler.sourceMap.value
                        ELSE (DevtoolImpliesMaps \/ ColumnsPluginConfigured)

\* Applied with the option unset and a `cheap` source-map devtool, no plugin with
\* columns: source maps are off.
C15_Witness ==
  /\ compiler.applied
  /\ ~compiler.sourceMap.defined
  /\ compiler.devtool.marks = {"cheap", "source-map"}
  /\ ~ColumnsPluginConfigured
  /\ ~options.sourceMap

\* Applied with the option unset and an `eval` devtool, yet a
\* SourceMapDevToolPlugin with columns is configured: source maps are on.
C15_PluginWitness ==
  /\ compiler.applied
  /\ ~compiler.sourceMap.defined
  /\ "eval" \in compiler.devtool.marks
  /\ ColumnsPluginConfigured
  /\ options.sourceMap

\* Applied with the option explicitly false under a source-map devtool: kept false.
C15_ExplicitWitness ==
  /\ compiler.applied
  /\ compiler.sourceMap = [defined |-> TRUE, value |-> FALSE]
  /\ DevtoolImpliesMaps
  /\ ~options.sourceMap

\* The cache holds an entry for the name and input text the task of n works on.
CachedFor(n) ==
  /\ options.cache
  /\ \E e \in cacheStore :
       e.key.name = n /\ e.key.contentHash = ContentHash(tasks[n].input)

\* C16: in every step, for every asset: its task asks the cache only when the
\* limiter starts it; the minifier is called only from a pending cache lookup
\* that finds no entry; the cache store is begun only when the minifier call
\* returns; and the asset is replaced only when that store completes (with
\* caching on, the entry is then in the cache) or when the lookup finds an entry.
C16_StepsInOrder ==
  [][\A n \in Names :
       /\ (tasks'[n].pc = "get" /\ tasks[n].pc # "get") => tasks[n].pc = "queued"
       /\ ((tasks'[n].pc = "minify" /\ tasks[n].pc # "minify") \/ calls'[n] > calls[n]) =>
            (tasks[n].pc = "get" /\ ~CachedFor(n))
       /\ (tasks'[n].pc = "store" /\ tasks[n].pc # "store") => tasks[n].pc = "minify"
       /\ (tasks[n].pc # "idle" /\ tasks'[n].pc # "idle" /\ assets'[n] # assets[n]) =>
            \/ /\ tasks[n].pc = "store"
               /\ options.cache =>
                    \E e \in cacheStore' :
                      /\ e.key.name = n
                      /\ e.key.contentHash = ContentHash(tasks[n].input)
                      /\ e.output.source = assets'[n].source
            \/ tasks[n].pc = "get" /\ CachedFor(n)
    ]_vars

\* In one run an asset went through lookup, minifier call and store before it was
\* written back, while another was written back straight from a cache hit.
C16_Witness ==
  /\ options.cache
  /\ \E n, m \in Selected :
       /\ tasks[n].outcome = "updated" /\ calls[n] = 1 /\ CachedFor(n)
       /\ tasks[m].outcome = "updated" /\ calls[m] = 0

\* The step is one of the task of n: the task was scheduled and moves on.
TaskStep(n) ==
  /\ tasks[n].pc \in {"queued", "get", "minify", "store"}
  /\ tasks'[n] # tasks[n]
  /\ tasks'[n].pc # "idle"

\* C17: a step of the task of n leaves the source and info of every asset of
\* another name as they were, and leaves every entry compilation.errors and
\* compilation.warnings held in place: the lists only grow, and the entries added
\* name n.
C17_TaskTouchesOwnAssetOnly ==
  [][\A n \in Names :
       TaskStep(n) =>
         /\ \A m \in Names \ {n} : assets'[m] = assets[m]
         /\ Len(errors') >= Len(errors)
         /\ SubSeq(errors', 1, Len(errors)) = errors
         /\ \A i \in (Len(errors) + 1)..Len(errors') : errors'[i].file = n
         /\ Len(warnings') >= Len(warnings)
         /\ SubSeq(warnings', 1, Len(warnings)) = warnings
         /\ \A i \in (Len(warnings) + 1)..Len(warnings') : warnings'[i].file = n
    ]_vars

\* Two tasks ran interleaved: one replaced its asset while the other, started
\* before, had recorded an error, and a warning was recorded as well.
C17_Witness ==
  /\ Len(errors) > pre.errors
  /\ Len(warnings) > pre.warnings
  /\ \E n, m \in Selected :
       /\ n # m
       /\ tasks[n].outcome = "updated" /\ assets[n] # pre.assets[n]
       /\ tasks[m].outcome = "failed" /\ assets[m] = pre.assets[m]

\* C18: under the fairness of the event loop, every task waiting in the limiter
\* queue is eventually started and eventually settles, and a running optimize()
\* eventually settles (resolved or rejected).
C18_TasksFinishAndRunCompletes ==
  /\ \A n \in Names :
       /\ (tasks[n].pc = "queued") ~> (tasks[n].pc # "queued")
       /\ (tasks[n].pc = "queued") ~> (tasks[n].pc \in {"fulfilled", "rejected"})
  /\ (runPc = "running") ~> (runPc \in {"resolved", "rejected"})

\* With a limit of one, a task that had to wait behind a failed sibling was
\* started, went through the minifier and finished, and optimize() resolved.
C18_Witness ==
  /\ concurrency = 1
  /\ Len(assetNames) > 1
  /\ runPc = "resolved"
  /\ tasks[assetNames[1]].outcome = "failed"
  /\ \A i \in 2..Len(assetNames) :
       tasks[assetNames[i]].outcome = "updated" /\ calls[assetNames[i]] = 1

\* An earlier run over this compilation recorded a minifier error for n.
FailedBefore(n) == \E i \in 1..pre.errors : errors[i].file = n

\* C19: every cache entry holds the minified output of a minifier call that
\* returned; after a failed minifier call for an asset the cache holds no entry
\* for its name and text; and in a later run over the same compilation the task of
\* that asset, once its cache lookup has returned, has called the minifier again.
C19_FailuresAreNotCached ==
  /\ \A e \in cacheStore :
       e.output.present /\ e.output.code.min /\ e.output.source.code = e.output.code
  /\ \A n \in Names :
       /\ tasks[n].outcome = "failed" => ~CachedFor(n)
       /\ (FailedBefore(n) /\ tasks[n].pc \in {"minify", "store", "fulfilled"}) =>
            calls[n] = 1

\* With caching on, the minifier failed for an asset in one run and the next run
\* over the same compilation called it again and updated the asset.
C19_Witness ==
  /\ options.cache
  /\ \E n \in Selected :
       /\ FailedBefore(n)
       /\ calls[n] = 1
       /\ tasks[n].outcome = "updated"
       /\ CachedFor(n)

\* C20: when the limiter starts the task of an asset that has been flagged
\* minimized since it was selected, the task fulfils in that very step, leaving
\* the assets, the cache, compilation.errors and compilation.warnings as they
\* were and calling no minifier; and a task that ended this way has no minifier
\* call, no output, no error and no warning to its name.
C20_FlaggedBeforeStartIsSkipped ==
  /\ [][\A n \in Names :
          (tasks[n].pc = "queued" /\ assets[n].info.minimized /\ tasks'[n].pc # "queued") =>
            /\ tasks'[n].pc = "fulfilled"
            /\ tasks'[n].output = NoOutput
            /\ calls'[n] = 0
            /\ assets' = assets
            /\ cacheStore' = cacheStore
            /\ errors' = errors
            /\ warnings' = warnings
       ]_vars
  /\ [](\A n \in Names :
          (n \in Selected /\ tasks[n].pc = "fulfilled" /\ tasks[n].output = NoOutput
             /\ ErrorsFor(n) = {}) =>
            /\ calls[n] = 0
            /\ WarningsFor(n) = {}
            /\ assets[n].info.minimized
            /\ assets[n] # pre.assets[n])

\* An asset selected unminimized was flagged by the child run while it waited in
\* the limiter queue; its task ended with nothing done, while a sibling's task
\* minified its own asset.
C20_Witness ==
  /\ runPc = "resolved"
  /\ \E n, m \in Selected :
       /\ ~pre.assets[n].info.minimized
       /\ tasks[n].pc = "fulfilled" /\ tasks[n].output = NoOutput
       /\ calls[n] = 0 /\ ErrorsFor(n) = {} /\ WarningsFor(n) = {}
       /\ assets[n].info.minimized
       /\ tasks[m].outcome = "updated" /\ calls[m] = 1

====
